---- MODULE Spec2Model ----
(***************************************************************************)
(* Camera navigation core of Cosmos (cosmos-app/src/App.tsx and            *)
(* cosmos-app/src/core/InputHandler.ts, constants from src/core/SDK.ts).   *)
(*                                                                         *)
(* Numbers are fixed point:                                                *)
(*   lengths        1 = 0.01 scene unit                                    *)
(*   angles         1 = 0.001 rad                                          *)
(*   time, delta    1 = 1 ms                                               *)
(*   zoom velocity  1 = 0.001                                              *)
(*   gamepad axes and analog button values  1 = 0.01                       *)
(*   rotation matrix entries, sines and cosines  1 = 0.001                 *)
(*   radar coordinates  1 = 0.1 px                                         *)
(* Products are divided back with TruncDiv (rounding toward zero).         *)
(***************************************************************************)
EXTENDS Integers, Sequences, FiniteSets, TLC

\* ------------------------------------------------------------------ bounds

\* operations (events, commands, frames) in a behaviour
MaxSteps == 3

\* operations in a behaviour of the top-view commands
MaxTopSteps == 5

\* ------------------------------------------------------- integer helpers

Abs(a) == IF a < 0 THEN -a ELSE a

Max(a, b) == IF a >= b THEN a ELSE b

Min(a, b) == IF a <= b THEN a ELSE b

TruncDiv(a, b) == IF a >= 0 THEN a \div b ELSE -((-a) \div b)

RECURSIVE SqrtSearch(_, _, _)
SqrtSearch(n, lo, hi) ==
    IF lo >= hi THEN lo
    ELSE LET mid == (lo + hi + 1) \div 2
         IN IF mid * mid <= n THEN SqrtSearch(n, mid, hi)
            ELSE SqrtSearch(n, lo, mid - 1)

\* floor of the square root, for 0 <= n < 2^30
ISqrt(n) == SqrtSearch(n, 0, 32767)

\* ----------------------------------------------------------- vectors

Vec(x, y, z) == <<x, y, z>>

VAdd(a, b) == <<a[1] + b[1], a[2] + b[2], a[3] + b[3]>>

VSub(a, b) == <<a[1] - b[1], a[2] - b[2], a[3] - b[3]>>

\* a scaled by k / den
VScale(a, k, den) ==
    <<TruncDiv(a[1] * k, den), TruncDiv(a[2] * k, den), TruncDiv(a[3] * k, den)>>

Cross(a, b) ==
    <<TruncDiv(a[2] * b[3], 1000) - TruncDiv(a[3] * b[2], 1000),
      TruncDiv(a[3] * b[1], 1000) - TruncDiv(a[1] * b[3], 1000),
      TruncDiv(a[1] * b[2], 1000) - TruncDiv(a[2] * b[1], 1000)>>

MaxAbs(a) == Max(Abs(a[1]), Max(Abs(a[2]), Abs(a[3])))

\* unit vector (entries in 0.001) along a; the zero vector stays zero
Normalize(a) ==
    IF MaxAbs(a) = 0 THEN <<0, 0, 0>>
    ELSE LET u == VScale(a, 1000, MaxAbs(a))
             len == ISqrt(u[1] * u[1] + u[2] * u[2] + u[3] * u[3])
         IN VScale(u, 1000, len)

\* ------------------------------------------------------ Math.sin / Math.cos

MathPI == 3142

HalfPi == MathPI \div 2

TwoPi == 2 * MathPI - 1

\* sine of x in [0, pi/2], Taylor polynomial to x^7
SinQ(x) ==
    LET x2 == (x * x) \div 1000
        x3 == (x2 * x) \div 1000
        x5 == (x3 * x2) \div 1000
        x7 == (x5 * x2) \div 1000
    IN Min(1000, x - (x3 \div 6) + (x5 \div 120) - (x7 \div 5040))

Sin(a) ==
    LET r == a % TwoPi
    IN IF r <= HalfPi THEN SinQ(r)
       ELSE IF r <= MathPI THEN SinQ(MathPI - r)
       ELSE IF r <= MathPI + HalfPi THEN -SinQ(r - MathPI)
       ELSE -SinQ(TwoPi - r)

Cos(a) == Sin(a + HalfPi)

\* ------------------------------------------------------ SDK.ts constants

LOCK_DISTANCE_MULTIPLIER == 3

\* LERP_FACTOR 0.1, as 1 / LERP_DIVISOR
LERP_DIVISOR == 10

FLY_SPEED == 20

BOOST_MULTIPLIER == 10

\* Math.PI / 3
ROLL_SPEED == MathPI \div 3

RADAR_RANGE == 2000

RADAR_RADIUS == 100

\* the literal 10 of "radius - 10"
EDGE_MARGIN == 10

\* ---------------------------------------------- InputHandler.ts constants

\* 0.15
DEADZONE == 15

\* 0.002 rad per pixel
SENSITIVITY == 2

\* Math.PI / 2 - 0.1
PHI_LIMIT == HalfPi - 100

\* ------------------------------------------------------------- the scene

Meshes == {"jupiter", "europa"}

\* what getObjectRadius can see of an object: its class, the radius of its own
\* sphere geometry, of its first child's, and its radius property (0: absent)
MeshInfo(m) ==
    IF m = "jupiter"
    THEN [kind |-> "Group", geoRadius |-> 0, childRadius |-> 1100, radiusProp |-> 1100,
          parent |-> "none", speed |-> 130, distance |-> 50000]
    ELSE [kind |-> "Mesh", geoRadius |-> 150, childRadius |-> 0, radiusProp |-> 0,
          parent |-> "jupiter", speed |-> 1500, distance |-> 3000]

\* entitiesRef: the mesh, the blip id, the label and the radius handed to lock-on
Entities ==
    { [mesh |-> "jupiter", id |-> "jupiter-blip", label |-> "Jupiter", radius |-> 4000],
      [mesh |-> "europa", id |-> "europa-blip", label |-> "Europa", radius |-> 500] }

\* Cosmos.getObjectRadius(object, fallback = 5)
getObjectRadius(object) ==
    LET o == MeshInfo(object)
    IN IF o.kind = "Mesh" /\ o.geoRadius # 0 THEN o.geoRadius
       ELSE IF o.kind = "Group" /\ o.childRadius # 0 THEN o.childRadius
       ELSE IF o.radiusProp # 0 THEN o.radiusProp
       ELSE 500

\* variant: cosine and sine exchanged
getOrbitalPositionSwapped(initialAngle, t, speed, distance) ==
    LET theta == initialAngle + TruncDiv(t * speed * 2, 10000)
    IN [x |-> TruncDiv(Sin(theta) * distance, 1000),
        z |-> TruncDiv(Cos(theta) * distance, 1000)]

\* Cosmos.getOrbitalPosition: speed in 0.001, ORBIT_SPEED_SCALE 0.2 as 2 / 10
getOrbitalPosition(initialAngle, t, speed, distance) ==
    LET theta == initialAngle + TruncDiv(t * speed * 2, 10000)
    IN [x |-> TruncDiv(Cos(theta) * distance, 1000),
        z |-> TruncDiv(Sin(theta) * distance, 1000)]

\* the initial angles drawn at construction (Math.random() * 2 pi), fixed here
InitialAngle(m) == IF m = "jupiter" THEN 0 ELSE HalfPi

\* position of a body in its parent after update(time)
LocalPosition(m, t) ==
    LET o == MeshInfo(m)
        p == getOrbitalPosition(InitialAngle(m), t, o.speed, o.distance)
    IN Vec(p.x, 0, p.z)

\* Object3D.getWorldPosition after the frame's updates at time t, the bodies in
\* sc being attached to their parents: a detached body has no parent
RECURSIVE WorldPosition(_, _, _)
WorldPosition(m, t, sc) ==
    IF MeshInfo(m).parent = "none" \/ m \notin sc THEN LocalPosition(m, t)
    ELSE VAdd(WorldPosition(MeshInfo(m).parent, t, sc), LocalPosition(m, t))

\* ----------------------------------------------------------- input state

Flags == {"forward", "back", "left", "right", "up", "down", "rollLeft", "rollRight",
          "boost", "pitchUp", "pitchDown", "yawLeft", "yawRight"}

createInputState == [f \in Flags |-> FALSE]

\* variant: the switch without the ShiftRight label
KeyFlagLeftShift(code) ==
    CASE code = "KeyW" -> "forward"
      [] code = "KeyS" -> "back"
      [] code = "KeyA" -> "left"
      [] code = "KeyD" -> "right"
      [] code = "ArrowUp" -> "pitchUp"
      [] code = "ArrowDown" -> "pitchDown"
      [] code = "ArrowLeft" -> "yawLeft"
      [] code = "ArrowRight" -> "yawRight"
      [] code = "KeyR" -> "up"
      [] code = "KeyF" -> "down"
      [] code = "KeyQ" -> "rollLeft"
      [] code = "KeyE" -> "rollRight"
      [] code = "ShiftLeft" -> "boost"
      [] OTHER -> "none"

\* the switch of updateInputKey: the flag a key code writes ("none": no case)
KeyFlag(code) ==
    CASE code = "KeyW" -> "forward"
      [] code = "KeyS" -> "back"
      [] code = "KeyA" -> "left"
      [] code = "KeyD" -> "right"
      [] code = "ArrowUp" -> "pitchUp"
      [] code = "ArrowDown" -> "pitchDown"
      [] code = "ArrowLeft" -> "yawLeft"
      [] code = "ArrowRight" -> "yawRight"
      [] code = "KeyR" -> "up"
      [] code = "KeyF" -> "down"
      [] code = "KeyQ" -> "rollLeft"
      [] code = "KeyE" -> "rollRight"
      [] code = "ShiftLeft" -> "boost"
      [] code = "ShiftRight" -> "boost"
      [] OTHER -> "none"

\* variant: a flag once set is never cleared by a key-up
updateInputKeySticky(state, code, pressed) ==
    IF KeyFlag(code) = "none" THEN state
    ELSE [state EXCEPT ![KeyFlag(code)] = TRUE]

updateInputKey(state, code, pressed) ==
    IF KeyFlag(code) = "none" THEN state
    ELSE [state EXCEPT ![KeyFlag(code)] = pressed]

\* KeyboardEvent.key of the physical key with this code (letters lower-cased)
KeyOf(code) ==
    CASE code = "KeyL" -> "l"
      [] code = "KeyH" -> "h"
      [] code = "KeyT" -> "t"
      [] code = "Escape" -> "Escape"
      [] OTHER -> "other"

\* --------------------------------------------------------------- gamepad

\* pollGamepad(): gamepads[0] ?? null; connected = FALSE is null
NoPad ==
    [connected |-> FALSE, ax0 |-> 0, ax1 |-> 0, ax2 |-> 0, ax3 |-> 0,
     b0 |-> FALSE, b1 |-> FALSE, b4 |-> FALSE, b5 |-> FALSE, b7 |-> 0,
     b12 |-> FALSE, b13 |-> FALSE]

PadIdle == [NoPad EXCEPT !.connected = TRUE]

\* ---------------------------------------------------------------- camera

Identity == <<Vec(1000, 0, 0), Vec(0, 1000, 0), Vec(0, 0, 1000)>>

\* Euler (-pi/2, 0, 0): local -Z points down the world Y axis
TopDown == <<Vec(1000, 0, 0), Vec(0, 0, -1000), Vec(0, 1000, 0)>>

UpDefault == Vec(0, 1000, 0)

\* new PerspectiveCamera; position.set(0, 100, 300)
InitCamera == [position |-> Vec(0, 10000, 30000), basis |-> Identity, up |-> UpDefault]

\* a * c + b * s, entries in 0.001
Mix(a, c, b, s) == VAdd(VScale(a, c, 1000), VScale(b, s, 1000))

rotateX(cam, a) ==
    IF a = 0 THEN cam ELSE
    LET c == Cos(a)
        s == Sin(a)
        B == cam.basis
    IN [cam EXCEPT !.basis = <<B[1], Mix(B[2], c, B[3], s), Mix(B[3], c, B[2], -s)>>]

rotateY(cam, a) ==
    IF a = 0 THEN cam ELSE
    LET c == Cos(a)
        s == Sin(a)
        B == cam.basis
    IN [cam EXCEPT !.basis = <<Mix(B[1], c, B[3], -s), B[2], Mix(B[3], c, B[1], s)>>]

rotateZ(cam, a) ==
    IF a = 0 THEN cam ELSE
    LET c == Cos(a)
        s == Sin(a)
        B == cam.basis
    IN [cam EXCEPT !.basis = <<Mix(B[1], c, B[2], s), Mix(B[2], c, B[1], -s), B[3]>>]

translateX(cam, d) == [cam EXCEPT !.position = VAdd(@, VScale(cam.basis[1], d, 1000))]

translateY(cam, d) == [cam EXCEPT !.position = VAdd(@, VScale(cam.basis[2], d, 1000))]

translateZ(cam, d) == [cam EXCEPT !.position = VAdd(@, VScale(cam.basis[3], d, 1000))]

\* Matrix4.lookAt(eye = position, target, up), as Object3D.lookAt uses it for a camera
lookAt(cam, target) ==
    LET d == VSub(cam.position, target)
        z0 == IF MaxAbs(d) = 0 THEN Vec(0, 0, 1000) ELSE Normalize(d)
        x0 == Cross(cam.up, z0)
        z1 == IF MaxAbs(x0) # 0 THEN z0
              ELSE IF Abs(cam.up[3]) = 1000 THEN Normalize(VAdd(z0, Vec(1, 0, 0)))
              ELSE Normalize(VAdd(z0, Vec(0, 0, 1)))
        x1 == Normalize(Cross(cam.up, z1))
    IN [cam EXCEPT !.basis = <<x1, Cross(z1, x1), z1>>]

\* variant: the position is set to the target of the interpolation
lerpJump(p, v) == v

\* Vector3.lerp(v, LERP_FACTOR)
lerp(p, v) == VAdd(p, VScale(VSub(v, p), 1, LERP_DIVISOR))

\* v.applyQuaternion(camera.quaternion.clone().invert()): v in the camera's axes
ToCameraLocal(cam, v) ==
    LET B == cam.basis
        dot(a) == TruncDiv(a[1] * v[1], 1000) + TruncDiv(a[2] * v[2], 1000)
                  + TruncDiv(a[3] * v[3], 1000)
    IN Vec(dot(B[1]), dot(B[2]), dot(B[3]))

\* euclidean length of a, in a's unit
VLength(a) ==
    IF MaxAbs(a) = 0 THEN 0
    ELSE LET u == VScale(a, 1000, MaxAbs(a))
         IN TruncDiv(MaxAbs(a) * ISqrt(u[1] * u[1] + u[2] * u[2] + u[3] * u[3]), 1000)

\* ----------------------------------------------------------------- state

VARIABLES
    input,            \* inputRef: the control-intent flags
    held,             \* the key codes physically held down (the keyboard)
    isDragging,       \* isDragging ref
    lastMouse,        \* lastMouse ref, <<x, y>>
    mouseDelta,       \* mouseDelta ref, <<x, y>>
    zoomVelocity,     \* zoomVelocity ref
    lockRef,          \* lockRef: <<>> is null, <<l>> a LockTarget l
    cameras,          \* the camera each run of the effect created, oldest first
    scene,            \* the bodies attached to the scene graph
    time,             \* the time of the last frame's object updates
    showLabels,       \* React state
    showUI,           \* React state
    showRadarList,    \* React state
    statsFrameCount,  \* statsFrameCount ref
    lockedInfo,       \* React state: the locked body's label, "null" when none
    cameraSpeed,      \* React state
    lastCameraPos,    \* lastCameraPos ref
    radar,            \* the blips: entity id -> [x, y, clamped]
    mounted,          \* the effect is set up: its listeners are attached
    steps,            \* operations run so far
    last              \* the last operation, its inputs and what it saw before

keyVars == <<input, held>>

mouseVars == <<isDragging, lastMouse, mouseDelta>>

uiVars == <<showLabels, showUI, showRadarList>>

hudVars == <<statsFrameCount, lockedInfo, cameraSpeed, lastCameraPos, radar>>

vars == <<input, held, isDragging, lastMouse, mouseDelta, zoomVelocity, lockRef, cameras,
          scene, time, showLabels, showUI, showRadarList, statsFrameCount, lockedInfo,
          cameraSpeed, lastCameraPos, radar, mounted, steps, last>>

\* how many times the effect ran; each run started an animate loop
starts == Len(cameras)

\* cameraRef.current
camera == cameras[starts]

NoLock == <<>>

Locked == lockRef # NoLock

Lock == lockRef[1]

EntityIds == {e.id : e \in Entities}

NoBlip == [x |-> 0, y |-> 0, clamped |-> FALSE]

\* the record of the last operation: what it was, its inputs, the state it saw
\* (mouse, zoom, before: the accumulators and the lock), the lock as a frame's
\* update left it, and the running totals of mouse displacement accumulated by
\* the move handler (dragged) and applied by frames (consumed), the camera it
\* saw, and the blips as they were when a frame's renderer.render ran
NoOp ==
    [op |-> "init", wasLocked |-> FALSE, target |-> "none", inScene |-> TRUE,
     isMoving |-> FALSE, delta |-> 0, pad |-> NoPad, loop |-> 0, wasMounted |-> FALSE,
     mouse |-> <<0, 0>>, applied |-> <<0, 0>>, radius |-> 0, code |-> "none",
     repeat |-> FALSE, zoom |-> 0, before |-> NoLock, updated |-> NoLock,
     dragged |-> <<0, 0>>, consumed |-> <<0, 0>>, local |-> <<0, 0, 0>>,
     camera |-> InitCamera, drawnRadar |-> [e \in EntityIds |-> NoBlip],
     labels |-> TRUE, ui |-> TRUE, flags |-> createInputState, keys |-> {},
     orbitIn |-> <<0, 0, 0, 0>>, orbit |-> [x |-> 0, z |-> 0], orbitWas |-> <<>>,
     info |-> "null", count |-> 0]

\* the last-operation record of operation op in the current state
Op(op) ==
    [NoOp EXCEPT !.op = op, !.wasLocked = Locked,
                 !.target = IF Locked THEN Lock.mesh ELSE "none",
                 !.inScene = IF Locked THEN Lock.mesh \in scene ELSE TRUE,
                 !.before = lockRef, !.dragged = last.dragged,
                 !.consumed = last.consumed, !.camera = camera,
                 !.wasMounted = mounted, !.mouse = mouseDelta, !.zoom = zoomVelocity,
                 !.labels = showLabels, !.ui = showUI, !.flags = input, !.keys = held,
                 !.info = lockedInfo, !.count = statsFrameCount]

\* the refs and React state as the component creates them
InitRefs ==
    /\ input = createInputState
    /\ held = {}
    /\ isDragging = FALSE
    /\ lastMouse = <<0, 0>>
    /\ mouseDelta = <<0, 0>>
    /\ zoomVelocity = 0
    /\ lockRef = NoLock
    /\ scene = Meshes
    /\ time = 0
    /\ showLabels = TRUE
    /\ showUI = TRUE
    /\ showRadarList = FALSE
    /\ statsFrameCount = 0
    /\ lockedInfo = "null"
    /\ cameraSpeed = 0
    /\ lastCameraPos = Vec(0, 0, 0)
    /\ radar = [e \in EntityIds |-> NoBlip]
    /\ steps = 0

\* after the first run of the effect: listeners attached, one animate loop
Init ==
    /\ InitRefs
    /\ cameras = <<InitCamera>>
    /\ mounted = TRUE
    /\ last = NoOp

\* ------------------------------------------------ the lock commands (refs)

\* fault: the distance is the radius itself
lockOnTargetNear(mesh, radius) ==
    <<[mesh |-> mesh, distance |-> radius, isTop |-> FALSE, theta |-> MathPI \div 4,
       phi |-> 300]>>

\* lockOnTarget.current(mesh, radius)
lockOnTarget(mesh, radius) ==
    <<[mesh |-> mesh, distance |-> radius * LOCK_DISTANCE_MULTIPLIER, isTop |-> FALSE,
       theta |-> MathPI \div 4, phi |-> 300]>>

\* unlockCamera.current()
unlockCamera == NoLock

\* fault: entering or leaving top view restarts the orbit angles
toggleTopViewReset(lock, cam) ==
    IF lock # <<>> /\ lock[1].mesh # "none"
    THEN <<<<[lock[1] EXCEPT !.isTop = ~lock[1].isTop, !.theta = MathPI \div 4,
                             !.phi = 300]>>, cam>>
    ELSE <<lock, [cam EXCEPT !.position = Vec(0, 100000, 0), !.basis = TopDown]>>

\* toggleTopView.current(camera): the new <<lockRef, camera>>
toggleTopView(lock, cam) ==
    IF lock # NoLock /\ lock[1].mesh # "none"
    THEN <<<<[lock[1] EXCEPT !.isTop = ~lock[1].isTop]>>, cam>>
    ELSE <<lock, [cam EXCEPT !.position = Vec(0, 100000, 0), !.basis = TopDown]>>

\* ---------------------------------------------------- applyInputToCamera

\* fault: the gamepad never sets an intent flag
IntentKeysOnly(inp, pad) ==
    [fwd |-> inp.forward, back |-> inp.back, left |-> inp.left, right |-> inp.right,
     up |-> inp.up, down |-> inp.down, rollL |-> inp.rollLeft, rollR |-> inp.rollRight,
     boost |-> inp.boost]

\* lines 84-92 and 111-131: the frame's intent, keys merged with the gamepad
Intent(inp, pad) ==
    [fwd   |-> inp.forward \/ (pad.connected /\ pad.ax1 < -DEADZONE),
     back  |-> inp.back \/ (pad.connected /\ pad.ax1 > DEADZONE),
     left  |-> inp.left \/ (pad.connected /\ pad.ax0 < -DEADZONE),
     right |-> inp.right \/ (pad.connected /\ pad.ax0 > DEADZONE),
     up    |-> inp.up \/ (pad.connected /\ pad.b0),
     down  |-> inp.down \/ (pad.connected /\ pad.b1),
     rollL |-> inp.rollLeft \/ (pad.connected /\ pad.b4),
     rollR |-> inp.rollRight \/ (pad.connected /\ pad.b5),
     boost |-> inp.boost \/ (pad.connected /\ pad.b7 > 50)]

\* variant: moving up or down does not count as movement
isMovingPlanar(it) == it.fwd \/ it.back \/ it.left \/ it.right

\* line 138
isMoving(it) == it.fwd \/ it.back \/ it.left \/ it.right \/ it.up \/ it.down

\* fault: the accumulator is not drained
MouseLookKeep(cam, md, lock) ==
    IF lock = <<>>
    THEN [cam |-> rotateX(rotateY(cam, -md[1] * SENSITIVITY), -md[2] * SENSITIVITY),
          yaw |-> -md[1] * SENSITIVITY, pitch |-> -md[2] * SENSITIVITY,
          orbitX |-> 0, orbitY |-> 0, mouseDelta |-> md]
    ELSE [cam |-> cam, yaw |-> 0, pitch |-> 0,
          orbitX |-> md[1] * SENSITIVITY, orbitY |-> md[2] * SENSITIVITY,
          mouseDelta |-> md]

\* variant: under a lock the accumulator is read but not reset
MouseLookStale(cam, md, lock) ==
    IF md = <<0, 0>>
    THEN [cam |-> cam, yaw |-> 0, pitch |-> 0, orbitX |-> 0, orbitY |-> 0,
          mouseDelta |-> md]
    ELSE IF lock = NoLock
    THEN [cam |-> rotateX(rotateY(cam, -md[1] * SENSITIVITY), -md[2] * SENSITIVITY),
          yaw |-> -md[1] * SENSITIVITY, pitch |-> -md[2] * SENSITIVITY,
          orbitX |-> 0, orbitY |-> 0, mouseDelta |-> <<0, 0>>]
    ELSE [cam |-> cam, yaw |-> 0, pitch |-> 0,
          orbitX |-> md[1] * SENSITIVITY, orbitY |-> md[2] * SENSITIVITY,
          mouseDelta |-> md]

\* lines 95-108: mouse look in free flight (the angles handed to rotateY and
\* rotateX), or the orbit deltas kept for the lock; the accumulator is drained
MouseLook(cam, md, lock) ==
    IF md = <<0, 0>>
    THEN [cam |-> cam, yaw |-> 0, pitch |-> 0, orbitX |-> 0, orbitY |-> 0,
          mouseDelta |-> md]
    ELSE IF lock = NoLock
    THEN [cam |-> rotateX(rotateY(cam, -md[1] * SENSITIVITY), -md[2] * SENSITIVITY),
          yaw |-> -md[1] * SENSITIVITY, pitch |-> -md[2] * SENSITIVITY,
          orbitX |-> 0, orbitY |-> 0, mouseDelta |-> <<0, 0>>]
    ELSE [cam |-> cam, yaw |-> 0, pitch |-> 0,
          orbitX |-> md[1] * SENSITIVITY, orbitY |-> md[2] * SENSITIVITY,
          mouseDelta |-> <<0, 0>>]

\* RS_SENS = 2.0 * delta, times an axis value: radians turned by a stick
StickAngle(ax, delta) == TruncDiv(ax * 2 * delta, 100)

\* v when the flag is set, else nothing
On(flag, v) == IF flag THEN v ELSE 0

\* fault: the right stick turns the camera whatever its deflection
PadLookNoDeadzone(cam, pad, delta) ==
    rotateY(rotateX(cam, On(pad.connected, -StickAngle(pad.ax3, delta))),
            On(pad.connected, -StickAngle(pad.ax2, delta)))

\* lines 125-127: the right stick turns the camera
PadLook(cam, pad, delta) ==
    rotateY(rotateX(cam, On(pad.connected /\ Abs(pad.ax3) > DEADZONE,
                            -StickAngle(pad.ax3, delta))),
            On(pad.connected /\ Abs(pad.ax2) > DEADZONE, -StickAngle(pad.ax2, delta)))

\* variant: both buttons push the zoom velocity the same way
PadZoomSame(z, pad) ==
    z - (IF pad.connected /\ pad.b12 THEN 1000 ELSE 0)
      - (IF pad.connected /\ pad.b13 THEN 1000 ELSE 0)

\* lines 133-134: buttons 12 and 13 change the zoom velocity
PadZoom(z, pad) ==
    z - (IF pad.connected /\ pad.b12 THEN 1000 ELSE 0)
      + (IF pad.connected /\ pad.b13 THEN 1000 ELSE 0)

\* zoomVelocity.current *= 0.9
Damp(z) == TruncDiv(z * 9, 10)

\* lines 143-154: translation and key rotation in free flight, at speed per frame
FreeMove(cam, inp, it, speed, lookSpeed, rotSpeed) ==
    rotateZ(rotateZ(
    rotateY(rotateY(
    rotateX(rotateX(
    translateY(translateY(
    translateX(translateX(
    translateZ(translateZ(cam, On(it.fwd, -speed)), On(it.back, speed)),
               On(it.left, -speed)), On(it.right, speed)),
               On(it.up, speed)), On(it.down, -speed)),
            On(inp.pitchUp, lookSpeed)), On(inp.pitchDown, -lookSpeed)),
            On(inp.yawLeft, lookSpeed)), On(inp.yawRight, -lookSpeed)),
            On(it.rollL, rotSpeed)), On(it.rollR, -rotSpeed))

\* lines 141-164: the camera after a free-flight frame, zoom included
FreeFlight(cam, inp, it, z, delta) ==
    translateZ(FreeMove(cam, inp, it,
                        TruncDiv((IF it.boost THEN FLY_SPEED * BOOST_MULTIPLIER
                                  ELSE FLY_SPEED) * delta, 10),
                        TruncDiv(TruncDiv(ROLL_SPEED * delta, 1000), 2),
                        TruncDiv(ROLL_SPEED * delta, 1000)),
               On(Abs(z) > 10, TruncDiv(z * delta, 1000)))

\* variant: the zoom velocity is never damped in free flight
FreeZoomKeep(z) == z

\* lines 157-163: the zoom velocity after a free-flight frame
FreeZoom(z) == IF Abs(z) > 10 THEN Damp(z) ELSE z

\* fault: phi is not clamped
ClampPhiOff(phi) == phi

\* Math.max(-Math.PI / 2 + 0.1, Math.min(Math.PI / 2 - 0.1, phi))
ClampPhi(phi) == Max(-PHI_LIMIT, Min(PHI_LIMIT, phi))

\* line 174: minD
MinDistance(mesh) == TruncDiv(getObjectRadius(mesh) * 3, 2)

\* fault: the minimum distance is not applied
ZoomDistanceNoMin(l, z, delta) == l.distance + TruncDiv(z * delta, 200)

\* lines 171-175: zoom applied to the orbit distance, then the minimum
ZoomDistance(l, z, delta) == Max(MinDistance(l.mesh), l.distance + TruncDiv(z * delta, 200))

\* lines 178-196: the orbit angles from keys, mouse and right stick
OrbitAngles(l, inp, pad, orbitX, orbitY, delta) ==
    LET orbitSpeed == 2 * delta
        t1 == IF inp.yawLeft THEN l.theta + orbitSpeed ELSE l.theta
        t2 == IF inp.yawRight THEN t1 - orbitSpeed ELSE t1
        p1 == IF inp.pitchUp THEN Min(PHI_LIMIT, l.phi + orbitSpeed) ELSE l.phi
        p2 == IF inp.pitchDown THEN Max(-PHI_LIMIT, p1 - orbitSpeed) ELSE p1
        t3 == t2 - orbitX * 2
        p3 == ClampPhi(p2 + orbitY * 2)
        t4 == IF pad.connected /\ Abs(pad.ax2) > DEADZONE
              THEN t3 - StickAngle(pad.ax2, delta) ELSE t3
        p4 == IF pad.connected /\ Abs(pad.ax3) > DEADZONE
              THEN ClampPhi(p3 + StickAngle(pad.ax3, delta)) ELSE p3
    IN [theta |-> t4, phi |-> p4]

\* lines 201-212: the offset from the target
OrbitOffset(l) ==
    IF l.isTop THEN Vec(0, l.distance, 0)
    ELSE LET h == TruncDiv(l.distance * Cos(l.phi), 1000)
         IN Vec(TruncDiv(h * Sin(l.theta), 1000),
                TruncDiv(l.distance * Sin(l.phi), 1000),
                TruncDiv(h * Cos(l.theta), 1000))

\* lines 170-196: the lock after a locked frame: distance and orbit angles
LockedTarget(l, inp, pad, orbitX, orbitY, z, delta) ==
    [l EXCEPT !.distance = ZoomDistance(l, z, delta),
              !.theta = OrbitAngles(l, inp, pad, orbitX, orbitY, delta).theta,
              !.phi = OrbitAngles(l, inp, pad, orbitX, orbitY, delta).phi]

\* variant: the locked branch leaves the camera alone
LockedCameraIdle(cam, l, t, sc) == cam

\* lines 167, 198-218: the camera follows the lock l at time t in scene sc
LockedCamera(cam, l, t, sc) ==
    lookAt([cam EXCEPT !.up = IF l.isTop THEN Vec(0, 0, -1000) ELSE UpDefault,
                       !.position = lerp(@, VAdd(WorldPosition(l.mesh, t, sc),
                                                 OrbitOffset(l)))],
           WorldPosition(l.mesh, t, sc))

\* the whole function: the new camera, accumulators and lock, and its result;
\* applied is the mouse displacement (pixels) that reached the camera or the orbit
applyInputToCamera(cam, inp, delta, md, z, lock, pad, t, sc) ==
    LET m == MouseLook(cam, md, lock)
    IN IF lock = NoLock
       THEN [cam |-> FreeFlight(PadLook(m.cam, pad, delta), inp, Intent(inp, pad),
                                PadZoom(z, pad), delta),
             mouseDelta |-> m.mouseDelta, zoom |-> FreeZoom(PadZoom(z, pad)),
             lock |-> lock, isMoving |-> isMoving(Intent(inp, pad)),
             applied |-> <<TruncDiv(-m.yaw, SENSITIVITY), TruncDiv(-m.pitch, SENSITIVITY)>>]
       ELSE IF lock[1].mesh # "none"
       THEN [cam |-> LockedCamera(PadLook(m.cam, pad, delta),
                                  LockedTarget(lock[1], inp, pad, m.orbitX, m.orbitY,
                                               PadZoom(z, pad), delta), t, sc),
             mouseDelta |-> m.mouseDelta, zoom |-> Damp(PadZoom(z, pad)),
             lock |-> <<LockedTarget(lock[1], inp, pad, m.orbitX, m.orbitY,
                                      PadZoom(z, pad), delta)>>,
             isMoving |-> isMoving(Intent(inp, pad)),
             applied |-> <<TruncDiv(m.orbitX, SENSITIVITY), TruncDiv(m.orbitY, SENSITIVITY)>>]
       ELSE [cam |-> PadLook(m.cam, pad, delta), mouseDelta |-> m.mouseDelta,
             zoom |-> PadZoom(z, pad), lock |-> lock,
             isMoving |-> isMoving(Intent(inp, pad)), applied |-> <<0, 0>>]

\* ------------------------------------------------------------ the radar

\* lines 398-401: x and y before clamping, for a body at v in the camera's axes
Projected(v) ==
    <<TruncDiv(v[1] * RADAR_RADIUS, RADAR_RANGE * 10),
      TruncDiv(v[3] * RADAR_RADIUS, RADAR_RANGE * 10)>>

\* radius - 10
RadarLimit == (RADAR_RADIUS - EDGE_MARGIN) * 10

\* fault: the point is never pulled back to the rim
RadarPointNoClamp(v) == [x |-> Projected(v)[1], y |-> Projected(v)[2], clamped |-> FALSE]

\* lines 398-409: the blip of a body at v in the camera's axes
RadarPoint(v) ==
    LET x == Projected(v)[1]
        y == Projected(v)[2]
        d == ISqrt(x * x + y * y)
    IN IF x * x + y * y > RadarLimit * RadarLimit
       THEN [x |-> TruncDiv(x * RadarLimit, d), y |-> TruncDiv(y * RadarLimit, d),
             clamped |-> TRUE]
       ELSE [x |-> x, y |-> y, clamped |-> FALSE]

\* lines 391-417: every blip from the camera and the bodies' world positions
RadarUpdate(cam, t, sc) ==
    [id \in EntityIds |->
        LET ent == CHOOSE e \in Entities : e.id = id
        IN RadarPoint(ToCameraLocal(cam, VSub(WorldPosition(ent.mesh, t, sc),
                                              cam.position)))]

\* -------------------------------------------------------------- animate

\* fault: any frame with a lock unlocks
AutoUnlockAlways(moving, lock) == <<>>

\* lines 334-336: auto-unlock on move
AutoUnlock(moving, lock) == IF moving /\ lock # NoLock THEN unlockCamera ELSE lock

\* variant: the HUD is always told there is no lock
LockedLabelNone(lock) == "null"

\* lines 361-383: the label shown for the lock
LockedLabel(lock) ==
    IF lock # NoLock /\ lock[1].mesh # "none"
    THEN IF \E e \in Entities : e.mesh = lock[1].mesh
         THEN (CHOOSE e \in Entities : e.mesh = lock[1].mesh).label
         ELSE "Unknown"
    ELSE "null"

\* lines 355-358: speedKmS, rounded
CameraSpeed(pos, lastPos, delta) == TruncDiv(VLength(VSub(pos, lastPos)) * 750, delta)

\* one run of animate in loop k with the frame's delta and gamepad snapshot:
\* bodies (309-319), input and camera (322-336), render (338-344), stats
\* (347-384), radar (386-417); the renderer runs before the blips are rewritten.
\* Loop k drives the camera of its own run of the effect and the shared refs
\* (the cached blips among them); React state is set only while mounted.
Animate(k, delta, pad) ==
    /\ k \in 1..starts
    /\ LET now == time + delta
           r == applyInputToCamera(cameras[k], input, delta, mouseDelta, zoomVelocity,
                                   lockRef, pad, now, scene)
           lock1 == AutoUnlock(r.isMoving, r.lock)
           tick == statsFrameCount + 1
           show == tick >= 10 /\ mounted
       IN /\ time' = now
          /\ cameras' = [cameras EXCEPT ![k] = r.cam]
          /\ mouseDelta' = r.mouseDelta
          /\ zoomVelocity' = r.zoom
          /\ lockRef' = lock1
          /\ statsFrameCount' = IF tick >= 10 THEN 0 ELSE tick
          /\ lastCameraPos' = IF tick >= 10 THEN r.cam.position ELSE lastCameraPos
          /\ cameraSpeed' = IF show THEN CameraSpeed(r.cam.position, lastCameraPos, delta)
                            ELSE cameraSpeed
          /\ lockedInfo' = IF show THEN LockedLabel(lock1) ELSE lockedInfo
          /\ radar' = RadarUpdate(r.cam, now, scene)
          /\ last' = [Op("frame") EXCEPT !.isMoving = r.isMoving, !.delta = delta,
                                         !.pad = pad, !.loop = k, !.applied = r.applied,
                                         !.updated = r.lock,
                                         !.drawnRadar = radar,
                                         !.consumed = <<@[1] + r.applied[1],
                                                        @[2] + r.applied[2]>>]
    /\ steps' = steps + 1
    /\ UNCHANGED <<keyVars, isDragging, lastMouse, scene, uiVars, mounted>>

\* ------------------------------------------------------- event handlers

\* variant: the hotkey switch without the e.repeat early return
HotkeyRepeats(key, repeat) == key

\* the key the hotkey switch of handleKeyDown acts on: `if (e.repeat) return;`
\* leaves the handler before the switch
Hotkey(key, repeat) == IF repeat THEN "none" ELSE key

\* handleKeyDown; an auto-repeat event arrives only for a held key
HandleKeyDown(code, repeat) ==
    /\ mounted
    /\ repeat <=> code \in held
    /\ held' = held \cup {code}
    /\ input' = updateInputKey(input, code, TRUE)
    /\ LET key == Hotkey(KeyOf(code), repeat)
           tv == IF key = "t"
                 THEN toggleTopView(lockRef, camera) ELSE <<lockRef, camera>>
       IN /\ showLabels' = IF key = "l" THEN ~showLabels ELSE showLabels
          /\ showUI' = IF key = "h" THEN ~showUI ELSE showUI
          /\ cameras' = [cameras EXCEPT ![starts] = tv[2]]
          /\ lockRef' = IF key = "Escape" THEN unlockCamera ELSE tv[1]
    /\ last' = [Op("keydown") EXCEPT !.code = code, !.repeat = repeat]
    /\ steps' = steps + 1
    /\ UNCHANGED <<mouseVars, zoomVelocity, scene, time, showRadarList, hudVars, mounted>>

\* handleKeyUp
HandleKeyUp(code) ==
    /\ mounted
    /\ code \in held
    /\ held' = held \ {code}
    /\ input' = updateInputKey(input, code, FALSE)
    /\ last' = [Op("keyup") EXCEPT !.code = code]
    /\ steps' = steps + 1
    /\ UNCHANGED <<mouseVars, zoomVelocity, lockRef, cameras, scene, time, uiVars,
                   hudVars, mounted>>

\* handleWheel: deltaY > 0 or not, with or without shiftKey
HandleWheel(positive, shiftKey) ==
    /\ mounted
    /\ zoomVelocity' = zoomVelocity + (IF positive THEN 1 ELSE -1)
                                      * (IF shiftKey THEN 20000 ELSE 5000)
    /\ last' = Op("wheel")
    /\ steps' = steps + 1
    /\ UNCHANGED <<keyVars, mouseVars, lockRef, cameras, scene, time, uiVars, hudVars,
                   mounted>>

\* handleMouseDown, button 0 at pos
HandleMouseDown(pos) ==
    /\ mounted
    /\ isDragging' = TRUE
    /\ lastMouse' = pos
    /\ last' = Op("mousedown")
    /\ steps' = steps + 1
    /\ UNCHANGED <<keyVars, mouseDelta, zoomVelocity, lockRef, cameras, scene, time,
                   uiVars, hudVars, mounted>>

\* handleMouseUp
HandleMouseUp ==
    /\ mounted
    /\ isDragging' = FALSE
    /\ last' = Op("mouseup")
    /\ steps' = steps + 1
    /\ UNCHANGED <<keyVars, lastMouse, mouseDelta, zoomVelocity, lockRef, cameras, scene,
                   time, uiVars, hudVars, mounted>>

\* handleMouseMove to pos
HandleMouseMove(pos) ==
    /\ mounted
    /\ IF isDragging
       THEN /\ lastMouse' = pos
            /\ mouseDelta' = <<mouseDelta[1] + pos[1] - lastMouse[1],
                               mouseDelta[2] + pos[2] - lastMouse[2]>>
            /\ last' = [Op("mousemove") EXCEPT
                           !.dragged = <<@[1] + pos[1] - lastMouse[1],
                                         @[2] + pos[2] - lastMouse[2]>>]
       ELSE /\ UNCHANGED <<lastMouse, mouseDelta>>
            /\ last' = Op("mousemove")
    /\ steps' = steps + 1
    /\ UNCHANGED <<keyVars, isDragging, zoomVelocity, lockRef, cameras, scene, time,
                   uiVars, hudVars, mounted>>

\* variant: a lock-on that also stops the zoom
LockOnAtRest(mesh, radius) ==
    /\ lockRef' = lockOnTarget(mesh, radius)
    /\ showRadarList' = FALSE
    /\ zoomVelocity' = 0
    /\ last' = [Op("lockOn") EXCEPT !.target = mesh, !.radius = radius]
    /\ steps' = steps + 1
    /\ UNCHANGED <<keyVars, mouseVars, cameras, scene, time, showLabels,
                   showUI, hudVars, mounted>>

\* a call of lockOnTarget.current: a click on a body of the list passes the
\* entity's mesh and radius, the ref itself takes any pair
LockOn(mesh, radius) ==
    /\ lockRef' = lockOnTarget(mesh, radius)
    /\ showRadarList' = FALSE
    /\ last' = [Op("lockOn") EXCEPT !.target = mesh, !.radius = radius]
    /\ steps' = steps + 1
    /\ UNCHANGED <<keyVars, mouseVars, zoomVelocity, cameras, scene, time, showLabels,
                   showUI, hudVars, mounted>>

\* line 520: the radar button opens or closes the list
ToggleRadarList ==
    /\ mounted
    /\ showRadarList' = ~showRadarList
    /\ last' = Op("radarList")
    /\ steps' = steps + 1
    /\ UNCHANGED <<keyVars, mouseVars, zoomVelocity, lockRef, cameras, scene, time,
                   showLabels, showUI, hudVars, mounted>>

\* the scene graph drops a body (Object3D.remove): the lock's reference goes stale
RemoveFromScene(mesh) ==
    /\ mesh \in scene
    /\ scene' = scene \ {mesh}
    /\ last' = Op("remove")
    /\ steps' = steps + 1
    /\ UNCHANGED <<keyVars, mouseVars, zoomVelocity, lockRef, cameras, time, uiVars,
                   hudVars, mounted>>

\* lines 421-431: the effect's cleanup detaches the seven listeners and disposes
\* the renderer; the requestAnimationFrame chain is not cancelled
Teardown ==
    /\ mounted
    /\ mounted' = FALSE
    /\ last' = Op("teardown")
    /\ steps' = steps + 1
    /\ UNCHANGED <<keyVars, mouseVars, zoomVelocity, lockRef, cameras, scene, time,
                   uiVars, hudVars>>

\* lines 133-300: the effect runs again: a new camera and scene, the listeners
\* attached, a new animate loop; the refs keep their values
Start ==
    /\ ~mounted
    /\ mounted' = TRUE
    /\ cameras' = Append(cameras, InitCamera)
    /\ scene' = Meshes
    /\ last' = Op("start")
    /\ steps' = steps + 1
    /\ UNCHANGED <<keyVars, mouseVars, zoomVelocity, lockRef, time, uiVars, hudVars>>

\* --------------------------------------------------- the lock state machine

Codes == {"KeyW", "ArrowUp", "KeyT", "Escape"}

\* lock-on calls: the entity table's pairs, and Jupiter with Europa's radius
LockCalls == {<<"jupiter", 4000>>, <<"europa", 500>>, <<"jupiter", 500>>}

PadStick == [PadIdle EXCEPT !.ax1 = -50]

PadUp == [PadIdle EXCEPT !.b0 = TRUE]

PadDown == [PadIdle EXCEPT !.b1 = TRUE]

PadOrbit == [PadIdle EXCEPT !.ax3 = 100, !.b13 = TRUE]

\* a frame's delta (ms) and gamepad snapshot
FrameInputs == {<<16, NoPad>>, <<1000, NoPad>>, <<16, PadStick>>, <<16, PadUp>>,
                <<16, PadDown>>, <<1000, PadOrbit>>}

Next ==
    \/ steps < MaxSteps /\ \E c \in Codes, r \in BOOLEAN : HandleKeyDown(c, r)
    \/ steps < MaxSteps /\ \E c \in Codes : HandleKeyUp(c)
    \/ steps < MaxSteps /\ HandleWheel(FALSE, FALSE)
    \/ steps < MaxSteps /\ HandleMouseDown(<<0, 0>>)
    \/ steps < MaxSteps /\ HandleMouseMove(<<100, 400>>)
    \/ steps < MaxSteps /\ HandleMouseUp
    \/ steps < MaxSteps /\ \E c \in LockCalls : LockOn(c[1], c[2])
    \/ steps < MaxSteps /\ \E f \in FrameInputs : Animate(1, f[1], f[2])

Spec == Init /\ [][Next]_vars

\* ------------------------------------------------ properties of the lock

\* a translational flag held by a key (a frame leaves the flags alone)
KeyTranslation ==
    input.forward \/ input.back \/ input.left \/ input.right \/ input.up \/ input.down

\* translational intent from a gamepad snapshot
PadTranslation(pad) ==
    pad.connected /\ (Abs(pad.ax0) > DEADZONE \/ Abs(pad.ax1) > DEADZONE \/ pad.b0 \/ pad.b1)

\* the last operation was a frame that started locked
LockedFrame == last.op = "frame" /\ last.before # NoLock

\* the last operation was a frame with translational intent
TranslationalFrame == last.op = "frame" /\ (KeyTranslation \/ PadTranslation(last.pad))

\* C1: a frame that starts with a lock and has translational intent, from a held
\* key or from the gamepad (left stick beyond the deadzone, button 0, button 1),
\* ends with the lock null
C1_AutoUnlock == (LockedFrame /\ TranslationalFrame) => lockRef = NoLock

C1_Witness ==
    /\ LockedFrame
    /\ ~KeyTranslation
    /\ last.pad.connected /\ last.pad.b1
    /\ lockRef = NoLock

\* C2: a lock becomes null only by an Escape key-down (the unlock command) or by
\* a frame with translational intent; a frame without translational intent
\* keeps the lock on the same target in the same view, changing only the orbit
\* angles and the distance
C2_UnlockCauses ==
    /\ (last.before # NoLock /\ lockRef = NoLock)
          => \/ last.op = "keydown" /\ KeyOf(last.code) = "Escape" /\ ~last.repeat
             \/ TranslationalFrame
    /\ (LockedFrame /\ ~TranslationalFrame)
          => /\ lockRef # NoLock
             /\ Lock.mesh = last.before[1].mesh
             /\ Lock.isTop = last.before[1].isTop

C2_Witness ==
    /\ LockedFrame
    /\ ~TranslationalFrame
    /\ lockRef # NoLock
    /\ Lock.phi # last.before[1].phi
    /\ Lock.distance # last.before[1].distance

\* C3: after the update of a frame that started locked, whatever the zoom
\* velocity and the delta, the orbit distance is at least 1.5 times the
\* target's radius (getObjectRadius)
C3_MinDistanceAfterFrame ==
    (last.op = "frame" /\ last.updated # NoLock)
        => 2 * last.updated[1].distance >= 3 * getObjectRadius(last.updated[1].mesh)

C3_Witness ==
    /\ LockedFrame
    /\ last.zoom < 0
    /\ last.before[1].distance > last.updated[1].distance
    /\ 2 * last.updated[1].distance = 3 * getObjectRadius(last.updated[1].mesh)

C5_PhiOpen == lockRef # NoLock => (-PHI_LIMIT < Lock.phi /\ Lock.phi < PHI_LIMIT)

\* C5, as the code has it: whenever a lock exists, phi is within the closed
\* interval from -(pi/2 - 0.1) to pi/2 - 0.1, bounds included
C5_PhiClosed == lockRef # NoLock => (-PHI_LIMIT <= Lock.phi /\ Lock.phi <= PHI_LIMIT)

C5_Witness ==
    /\ LockedFrame
    /\ lockRef # NoLock
    /\ last.before[1].phi < PHI_LIMIT
    /\ Lock.phi = PHI_LIMIT

C10_LockOnResult ==
    last.op = "lockOn"
        => lockRef = <<[mesh |-> last.target,
                        distance |-> last.radius * LOCK_DISTANCE_MULTIPLIER,
                        isTop |-> FALSE, theta |-> 785, phi |-> 300]>>

C10_Witness ==
    /\ last.op = "lockOn"
    /\ last.before # NoLock
    /\ last.before[1].isTop
    /\ last.before[1].mesh # Lock.mesh
    /\ ~Lock.isTop

\* ------------------------------------------------- a body leaves the scene

NextScene ==
    \/ steps < MaxSteps /\ \E c \in LockCalls : LockOn(c[1], c[2])
    \/ steps < MaxSteps /\ \E m \in Meshes : RemoveFromScene(m)
    \/ steps < MaxSteps /\ \E f \in FrameInputs : Animate(1, f[1], f[2])

SpecScene == Init /\ [][NextScene]_vars

\* C6: a frame that starts locked on a body no longer in the scene ends with the
\* lock null
C6_InvalidTargetUnlocks == (LockedFrame /\ ~last.inScene) => lockRef = NoLock

\* ---------------------------------------------------- the radar projection

\* blip distances from the centre, in 0.1 px: inside, on and beyond the rim
RadarScales == {100, 180, 181, 400}

\* directions whose length is a whole number: the axes and the 3-4-5 triangles
RadarDirections ==
    {<<5, 0>>, <<-5, 0>>, <<0, 5>>, <<0, -5>>, <<3, 4>>, <<-3, 4>>, <<3, -4>>,
     <<-3, -4>>, <<4, 3>>, <<-4, 3>>, <<4, -3>>, <<-4, -3>>}

\* a body's position in the camera's axes, in 0.01 units
RadarInputs ==
    {Vec(d[1] * k * 200, h, d[2] * k * 200) :
        d \in RadarDirections, k \in RadarScales, h \in {0, 30000}}

\* camera orientations with whole-number axes: level, turned a quarter about Y,
\* looking straight down
RadarBases ==
    {Identity, <<Vec(0, 0, -1000), Vec(0, 1000, 0), Vec(1000, 0, 0)>>, TopDown}

InitRadar ==
    /\ InitRefs
    /\ \E B \in RadarBases : cameras = <<[InitCamera EXCEPT !.basis = B]>>
    /\ mounted = TRUE
    /\ \E v \in RadarInputs :
          last = [NoOp EXCEPT !.local = VAdd(VScale(camera.basis[1], v[1], 1000),
                                        VAdd(VScale(camera.basis[2], v[2], 1000),
                                             VScale(camera.basis[3], v[3], 1000)))]

\* lines 393-416 for one entity whose body is at last.local from the camera, in
\* world axes
RadarProbe(id) ==
    /\ radar' = [radar EXCEPT ![id] = RadarPoint(ToCameraLocal(camera, last.local))]
    /\ last' = [last EXCEPT !.op = "radar", !.target = id]
    /\ steps' = steps + 1
    /\ UNCHANGED <<keyVars, mouseVars, zoomVelocity, lockRef, cameras, scene, time,
                   uiVars, statsFrameCount, lockedInfo, cameraSpeed, lastCameraPos,
                   mounted>>

NextRadar == steps < MaxSteps /\ \E id \in EntityIds : RadarProbe(id)

SpecRadar == InitRadar /\ [][NextRadar]_vars

\* the blip just computed and the projection it came from
Blip == radar[last.target]

Unclamped == Projected(ToCameraLocal(camera, last.local))

\* C8: a radar point lies within RADAR_RADIUS - 10 of the centre; it is marked
\* clamped exactly when its projection lay beyond that; a clamped point is on
\* the ray of its projection and an unclamped one is the projection
C8_RadarClamp ==
    last.op = "radar" =>
        /\ Blip.x * Blip.x + Blip.y * Blip.y <= RadarLimit * RadarLimit
        /\ Blip.clamped <=> (Unclamped[1] * Unclamped[1] + Unclamped[2] * Unclamped[2]
                                > RadarLimit * RadarLimit)
        /\ Blip.clamped => /\ Blip.x * Unclamped[2] = Blip.y * Unclamped[1]
                           /\ Blip.x * Unclamped[1] >= 0
                           /\ Blip.y * Unclamped[2] >= 0
        /\ ~Blip.clamped => <<Blip.x, Blip.y>> = Unclamped

C8_Witness ==
    /\ last.op = "radar"
    /\ Blip.clamped
    /\ Blip.x * Blip.y # 0
    /\ Blip.x * Blip.x + Blip.y * Blip.y = RadarLimit * RadarLimit
    /\ Unclamped # <<Blip.x, Blip.y>>

\* ------------------------------------------------- teardown and restart

LifecycleFrames == {<<16, NoPad>>, <<16, PadStick>>}

NextLifecycle ==
    \/ steps < MaxSteps /\ Teardown
    \/ steps < MaxSteps /\ Start
    \/ steps < MaxSteps /\ HandleKeyDown("KeyW", FALSE)
    \/ steps < MaxSteps /\ HandleKeyUp("KeyW")
    \/ steps < MaxSteps /\ ToggleRadarList
    \/ steps < MaxSteps /\ LockOn("jupiter", 4000)
    \/ steps < MaxSteps /\ \E k \in 1..starts, f \in LifecycleFrames : Animate(k, f[1], f[2])

SpecLifecycle == Init /\ [][NextLifecycle]_vars

\* C9: a frame (and with it a gamepad poll) runs only in the loop of the current
\* run of the effect and only while it is set up: none after teardown, none of
\* an old loop after a new start
C9_NoFrameAfterTeardown == last.op = "frame" => (last.wasMounted /\ last.loop = starts)

\* ------------------------------------------------------------ top view

\* the last operation was a key-down of T that ran the top-view command
TopViewCommand == last.op = "keydown" /\ KeyOf(last.code) = "t" /\ ~last.repeat

\* C11: with a lock, the top-view command flips the top-view flag and leaves
\* target, distance, theta and phi alone, the lock staying non-null; the
\* command run twice gives back the lock it started from
C11_TopViewToggle ==
    /\ (TopViewCommand /\ last.before # NoLock)
          => lockRef = <<[last.before[1] EXCEPT !.isTop = ~last.before[1].isTop]>>
    /\ lockRef # NoLock
          => toggleTopView(toggleTopView(lockRef, camera)[1], camera)[1] = lockRef

C11_Witness ==
    /\ TopViewCommand
    /\ last.before # NoLock
    /\ last.before[1].phi # 300
    /\ lockRef # NoLock
    /\ Lock.isTop

\* lock, top view, unlock, top view again
NextTopView ==
    \/ steps < MaxTopSteps /\ LockOn("jupiter", 4000)
    \/ steps < MaxTopSteps /\ \E c \in {"KeyT", "Escape"}, r \in BOOLEAN : HandleKeyDown(c, r)
    \/ steps < MaxTopSteps /\ \E c \in {"KeyT", "Escape"} : HandleKeyUp(c)
    \/ steps < MaxTopSteps /\ \E p \in {NoPad, PadStick} : Animate(1, 16, p)

SpecTopView == Init /\ [][NextTopView]_vars

\* C12: without a lock, the top-view command leaves the camera at (0, 1000, 0)
\* looking straight down with the default up vector, and the lock null,
\* whatever happened before
C12_FreeTopPose ==
    (TopViewCommand /\ last.before = NoLock)
        => /\ camera.position = Vec(0, 100000, 0)
           /\ camera.basis = TopDown
           /\ camera.up = UpDefault
           /\ lockRef = NoLock

\* ------------------------------------------------- handlers and the camera

\* the last operation was a keyboard, mouse or wheel event handler
HandlerRan ==
    last.op \in {"keydown", "keyup", "wheel", "mousedown", "mouseup", "mousemove"}

\* C13: an event handler leaves the camera's position and orientation as they
\* were: the camera changes only in a frame
C13_HandlersLeaveCamera ==
    HandlerRan => (camera.position = last.camera.position
                   /\ camera.basis = last.camera.basis)

\* --------------------------------------------------- the order in a frame

\* C14: in a frame the radar points are computed from the frame's camera and
\* body positions, and the renderer draws after them
C14_FrameOrder ==
    last.op = "frame"
        => /\ radar = RadarUpdate(cameras[last.loop], time, scene)
           /\ last.drawnRadar = radar

\* ------------------------------------------------------------ the gamepad

\* sticks at the deadzone (0.15) on every axis, and just beyond it on one
PadDrift == [PadIdle EXCEPT !.ax0 = 15, !.ax1 = -15, !.ax2 = -15, !.ax3 = 15]

PadEdges ==
    {PadDrift, [PadDrift EXCEPT !.ax0 = 16], [PadDrift EXCEPT !.ax1 = -16],
     [PadDrift EXCEPT !.ax2 = -16], [PadDrift EXCEPT !.ax3 = 16]}

\* the left stick forward, the trigger (button 7) at and just above one half
PadTriggers == {[PadStick EXCEPT !.b7 = 50], [PadStick EXCEPT !.b7 = 51]}

NextPad ==
    \/ steps < MaxSteps /\ LockOn("jupiter", 4000)
    \/ steps < MaxSteps /\ \E r \in BOOLEAN : HandleKeyDown("ShiftLeft", r)
    \/ steps < MaxSteps /\ HandleKeyUp("ShiftLeft")
    \/ steps < MaxSteps /\ \E p \in PadEdges \cup PadTriggers : Animate(1, 16, p)

SpecPad == Init /\ [][NextPad]_vars

\* the pad with its four axes at rest
Centered(pad) == [pad EXCEPT !.ax0 = 0, !.ax1 = 0, !.ax2 = 0, !.ax3 = 0]

\* the last frame's update run again from the same state with the pad p
Replayed(p) ==
    applyInputToCamera(last.camera, input, last.delta, last.mouse, last.zoom,
                       last.before, p, time, scene)

\* C15: a frame whose four axes are within 0.15 moves, turns and orbits as the
\* same frame with the axes at 0 and leaves the same lock; an axis beyond 0.15
\* takes effect: the left stick sets a movement flag, the right stick turns the
\* camera in free flight and moves the orbit angles under a lock
C15_Deadzone ==
    (last.op = "frame" /\ last.pad.connected) =>
        /\ (Abs(last.pad.ax0) <= DEADZONE /\ Abs(last.pad.ax1) <= DEADZONE
            /\ Abs(last.pad.ax2) <= DEADZONE /\ Abs(last.pad.ax3) <= DEADZONE)
              => /\ camera = Replayed(Centered(last.pad)).cam
                 /\ last.updated = Replayed(Centered(last.pad)).lock
                 /\ last.isMoving = Replayed(Centered(last.pad)).isMoving
                 /\ lockRef = AutoUnlock(last.isMoving, last.updated)
        /\ (Abs(last.pad.ax0) > DEADZONE \/ Abs(last.pad.ax1) > DEADZONE)
              => last.isMoving
        /\ ((Abs(last.pad.ax2) > DEADZONE \/ Abs(last.pad.ax3) > DEADZONE)
            /\ last.before = NoLock)
              => camera.basis # Replayed(Centered(last.pad)).cam.basis
        /\ ((Abs(last.pad.ax2) > DEADZONE \/ Abs(last.pad.ax3) > DEADZONE)
            /\ last.before # NoLock)
              => last.updated # Replayed(Centered(last.pad)).lock

C15_Witness ==
    /\ last.op = "frame"
    /\ last.pad = PadDrift
    /\ last.before # NoLock
    /\ lockRef # NoLock
    /\ Lock.theta = last.before[1].theta
    /\ Lock.phi = last.before[1].phi

\* the camera position after flying forward for the last frame, boosted or not
FlownForward(boosted) ==
    translateZ(last.camera,
               -TruncDiv((IF boosted THEN FLY_SPEED * BOOST_MULTIPLIER ELSE FLY_SPEED)
                         * last.delta, 10)).position

\* C16: in a free-flight frame flown forward with a gamepad, the boosted speed
\* applies exactly when the boost key is held or button 7 reads 0.5 or more
C16_BoostThreshold ==
    (last.op = "frame" /\ last.before = NoLock /\ last.pad \in PadTriggers)
        => camera.position = FlownForward(input.boost \/ last.pad.b7 >= 50)


\* ------------------------------------------------------------ hotkeys

HotkeyCodes == {"KeyL", "KeyH", "KeyT", "Escape"}

\* the hotkeys pressed, auto-repeated and released, with a lock-on and frames
\* without any movement input in between
NextHotkeys ==
    \/ steps < MaxSteps /\ LockOn("jupiter", 4000)
    \/ steps < MaxSteps /\ \E c \in HotkeyCodes, r \in BOOLEAN : HandleKeyDown(c, r)
    \/ steps < MaxSteps /\ \E c \in HotkeyCodes : HandleKeyUp(c)
    \/ steps < MaxSteps /\ Animate(1, 16, NoPad)

SpecHotkeys == Init /\ [][NextHotkeys]_vars

HotkeyDown == last.op = "keydown" /\ last.code \in HotkeyCodes

\* C17: a hotkey's first key-down runs its command once (labels or HUD flipped,
\* top view toggled, lock cleared); an auto-repeated key-down of it changes
\* nothing; and a frame taken while only hotkeys are held sees no intent flag,
\* leaves labels and HUD as they were, and neither makes nor breaks a lock.
C17_HotkeyOncePerPress ==
    /\ (HotkeyDown /\ last.repeat)
          => /\ showLabels = last.labels /\ showUI = last.ui
             /\ lockRef = last.before /\ camera = last.camera
    /\ (HotkeyDown /\ ~last.repeat)
          => /\ showLabels = (IF last.code = "KeyL" THEN ~last.labels ELSE last.labels)
             /\ showUI = (IF last.code = "KeyH" THEN ~last.ui ELSE last.ui)
             /\ <<lockRef, camera>> =
                    CASE last.code = "KeyT" -> toggleTopView(last.before, last.camera)
                      [] last.code = "Escape" -> <<NoLock, last.camera>>
                      [] OTHER -> <<last.before, last.camera>>
    /\ HotkeyDown => input = last.flags
    /\ (last.op = "frame" /\ held \subseteq HotkeyCodes)
          => /\ input = createInputState /\ ~last.isMoving
             /\ showLabels = last.labels /\ showUI = last.ui
             /\ (lockRef = NoLock) = (last.before = NoLock)
             /\ lockRef # NoLock => Lock.isTop = last.before[1].isTop
             /\ last.before = NoLock => camera = last.camera

C17_Witness ==
    /\ HotkeyDown /\ last.repeat /\ last.code = "KeyT"
    /\ lockRef # NoLock /\ Lock.isTop


\* ----------------------------------------------------------- key intents

\* the codes updateInputKey has a case for, and two it has none for
KeyCodes ==
    {"KeyW", "KeyS", "KeyA", "KeyD", "KeyR", "KeyF", "KeyQ", "KeyE", "ArrowUp",
     "ArrowDown", "ArrowLeft", "ArrowRight", "ShiftLeft", "ShiftRight", "KeyL", "Space"}

\* key-down (first or auto-repeated) and key-up events of every code
NextKeys ==
    \/ steps < MaxSteps /\ \E c \in KeyCodes, r \in BOOLEAN : HandleKeyDown(c, r)
    \/ steps < MaxSteps /\ \E c \in KeyCodes : HandleKeyUp(c)

SpecKeys == Init /\ [][NextKeys]_vars

\* the key codes of each intent flag, as the control table lists them
FlagKeys ==
    [forward |-> {"KeyW"}, back |-> {"KeyS"}, left |-> {"KeyA"}, right |-> {"KeyD"},
     up |-> {"KeyR"}, down |-> {"KeyF"}, rollLeft |-> {"KeyQ"}, rollRight |-> {"KeyE"},
     pitchUp |-> {"ArrowUp"}, pitchDown |-> {"ArrowDown"}, yawLeft |-> {"ArrowLeft"},
     yawRight |-> {"ArrowRight"}, boost |-> {"ShiftLeft", "ShiftRight"}]

KeyEvent == last.op \in {"keydown", "keyup"}

\* C18: after a key event each flag whose keys include the event's code has the
\* pressed value (TRUE after key-down, FALSE after key-up) and every other flag
\* is what it was before; hence every flag but boost is true exactly while its
\* key is held.
C18_KeyFlags ==
    /\ DOMAIN input = Flags
    /\ KeyEvent =>
          \A f \in Flags :
              input[f] = IF last.code \in FlagKeys[f] THEN last.op = "keydown"
                         ELSE last.flags[f]
    /\ \A f \in Flags \ {"boost"} : input[f] <=> FlagKeys[f] \subseteq held

C18_Witness ==
    /\ last.op = "keyup" /\ last.code = "KeyW"
    /\ "ArrowUp" \in held /\ input.pitchUp /\ ~input.forward /\ last.flags.forward


\* ------------------------------------------------------ orbital position

\* <<initialAngle, time, speed, distance>>: phases on and off the quarter turns,
\* times that add nothing, a quarter turn at speed 1, one radian at speed 1 and
\* several turns; speeds and distances of the size the bodies use
OrbitInputs ==
    {<<p, t, s, r>> : p \in {0, HalfPi, 1000, MathPI}, t \in {0, 7855, 5000, 60000},
                      s \in {1000, 130, 1500}, r \in {1000, 3000, 30000}}

InitOrbit ==
    /\ InitRefs
    /\ cameras = <<InitCamera>>
    /\ mounted = TRUE
    /\ \E i \in OrbitInputs : last = [NoOp EXCEPT !.orbitIn = i]

\* one call of Cosmos.getOrbitalPosition, as Jupiter.update and Europa.update
\* make it, with the arguments in last.orbitIn
OrbitProbe ==
    /\ last' = [last EXCEPT !.op = "orbit",
                            !.orbit = getOrbitalPosition(last.orbitIn[1], last.orbitIn[2],
                                                         last.orbitIn[3], last.orbitIn[4]),
                            !.orbitWas = IF last.op = "orbit" THEN <<last.orbit>>
                                         ELSE <<>>]
    /\ steps' = steps + 1
    /\ UNCHANGED <<keyVars, mouseVars, zoomVelocity, lockRef, cameras, scene, time,
                   uiVars, hudVars, mounted>>

NextOrbit == steps < MaxSteps /\ OrbitProbe

SpecOrbit == InitOrbit /\ [][NextOrbit]_vars

\* the angle the claim names: p + t * s * 0.2, in 0.001 rad
OrbitTheta == last.orbitIn[1] + TruncDiv(last.orbitIn[2] * last.orbitIn[3] * 2, 10000)

\* C19: the orbital position lies on the circle of radius r (to the 0.5% that
\* three-digit sines and cosines allow), in the direction of the angle
\* p + t * s * 0.2; at angle 0 it is (r, 0) and at a quarter turn (0, r); and a
\* second call with the same arguments returns the same position.
C19_OrbitOnCircle ==
    last.op = "orbit" =>
        LET r == last.orbitIn[4]
            pos == last.orbit
        IN /\ Abs(pos.x * pos.x + pos.z * pos.z - r * r) <= (r * r) \div 200
           /\ Abs(pos.x * Sin(OrbitTheta) - pos.z * Cos(OrbitTheta)) <= 2000
           /\ pos.x * Cos(OrbitTheta) + pos.z * Sin(OrbitTheta) > 0
           /\ OrbitTheta = 0 => pos = [x |-> r, z |-> 0]
           /\ OrbitTheta = HalfPi => pos = [x |-> 0, z |-> r]
           /\ last.orbitWas # <<>> => last.orbitWas[1] = pos

C19_Witness ==
    /\ last.op = "orbit" /\ last.orbitWas # <<>>
    /\ last.orbitIn = <<0, 7855, 1000, 30000>>
    /\ OrbitTheta = HalfPi /\ last.orbit = [x |-> 0, z |-> 30000]


\* ------------------------------------------------------ free-flight zoom

\* wheel ticks either way, plain and shifted, the forward key, a lock-on, and
\* short and long frames without a pad and with the pad of PadOrbit
NextZoom ==
    \/ steps < MaxSteps /\ \E p \in BOOLEAN, s \in BOOLEAN : HandleWheel(p, s)
    \/ steps < MaxSteps /\ \E r \in BOOLEAN : HandleKeyDown("KeyW", r)
    \/ steps < MaxSteps /\ HandleKeyUp("KeyW")
    \/ steps < MaxSteps /\ LockOn("jupiter", 4000)
    \/ steps < MaxSteps /\ \E d \in {16, 1000}, p \in {NoPad, PadOrbit} : Animate(1, d, p)

SpecZoom == Init /\ [][NextZoom]_vars

\* the zoom velocity the last frame's zoom step read: buttons 12 and 13 counted
ZoomSeen == PadZoom(last.zoom, last.pad)

\* the last frame was a free-flight frame with a zoom velocity above 0.01
ZoomFrame == last.op = "frame" /\ last.before = NoLock /\ Abs(ZoomSeen) > 10

\* v * delta * 10.0, in 0.01 units
ZoomAmount == TruncDiv(ZoomSeen * last.delta, 1000)

\* the camera the last frame would have left with no zoom velocity at all
Unzoomed ==
    applyInputToCamera(last.camera, input, last.delta, last.mouse, 0, last.before,
                       [last.pad EXCEPT !.b12 = FALSE, !.b13 = FALSE], time, scene).cam

InitState(z, n) ==
    /\ input = createInputState
    /\ held = {}
    /\ isDragging = FALSE
    /\ lastMouse = <<0, 0>>
    /\ mouseDelta = <<0, 0>>
    /\ zoomVelocity = z
    /\ lockRef = NoLock
    /\ scene = Meshes
    /\ time = 0
    /\ showLabels = TRUE
    /\ showUI = TRUE
    /\ showRadarList = FALSE
    /\ statsFrameCount = n
    /\ lockedInfo = "null"
    /\ cameraSpeed = 0
    /\ lastCameraPos = Vec(0, 0, 0)
    /\ radar = [e \in EntityIds |-> NoBlip]
    /\ steps = 0
    /\ cameras = <<InitCamera>>
    /\ mounted = TRUE
    /\ last = NoOp

\* frames a glide is followed for: a wheel tick of 5 falls to the epsilon in 56
MaxGlide == 60

\* one wheel tick (deltaY > 0, no Shift) has just arrived
InitGlide == InitState(5000, 0)

\* frames of 0.1 s with no further input, and one lock-on at any point of the glide
NextGlide ==
    \/ steps < MaxGlide /\ lockRef = NoLock /\ LockOn("jupiter", 4000)
    \/ steps < MaxGlide /\ Animate(1, 100, NoPad)

SpecGlide == InitGlide /\ [][NextGlide]_vars

\* C21: a locked frame treats the zoom velocity as a free-flight frame does: the
\* velocity after the frame is the one the free-flight rule gives (0.9 v above
\* the epsilon, v itself at or below it), and at or below the epsilon the zoom
\* adds nothing to the orbit distance
C21_SameZoomRule ==
    last.op = "frame" =>
        /\ zoomVelocity = FreeZoom(ZoomSeen)
        /\ (last.before # NoLock /\ Abs(ZoomSeen) <= 10)
              => last.updated[1].distance
                    = Max(MinDistance(last.before[1].mesh), last.before[1].distance)


\* ------------------------------------------------- locked-camera smoothing

\* the last operation was a frame that started under a lock
LockedUpdate == last.op = "frame" /\ last.before # NoLock

\* where the last locked frame wanted the camera: the target's position at the
\* frame's time plus the offset of the updated orbit
Desired == VAdd(WorldPosition(last.before[1].mesh, time, scene), OrbitOffset(last.updated[1]))

\* C22: after a locked frame each coordinate of the camera is the old one plus a
\* tenth (LERP_FACTOR 0.1) of the way to the desired position, so it lies between
\* the old and the desired coordinate and stops short of the desired one
\* whenever that was a tenth of a unit or more away
C22_LerpStep ==
    LockedUpdate =>
        \A i \in 1..3 :
            LET old == last.camera.position[i]
                want == Desired[i]
                new == camera.position[i]
            IN /\ new = old + TruncDiv(want - old, 10)
               /\ Min(old, want) <= new /\ new <= Max(old, want)
               /\ Abs(want - old) >= 10 => new # want

C22_Witness ==
    /\ LockedUpdate /\ last.before[1].mesh = "europa" /\ last.delta = 1000
    /\ camera.position # Desired
    /\ camera.position # last.camera.position


\* C23: once the zoom velocity a frame reads is at or below the epsilon, the
\* frame moves nothing because of zoom: in free flight the camera stays where it
\* was, under a lock the orbit distance stays what it was, and the velocity
\* stays at rest
C23_RestStops ==
    (last.op = "frame" /\ Abs(ZoomSeen) <= 10) =>
        /\ last.before = NoLock => camera = last.camera
        /\ last.before # NoLock => last.updated[1].distance = last.before[1].distance
        /\ Abs(zoomVelocity) <= 10


\* ---------------------------------------------------- draining the mouse

\* operations a drag, a lock-on and two frames are followed for
MaxDrainSteps == 5

\* a drag (button down, a move, button up), a lock-on and frames with no key
\* and no pad
NextDrain ==
    \/ steps < MaxDrainSteps /\ HandleMouseDown(<<0, 0>>)
    \/ steps < MaxDrainSteps /\ HandleMouseMove(<<100, 400>>)
    \/ steps < MaxDrainSteps /\ HandleMouseUp
    \/ steps < MaxDrainSteps /\ LockOn("jupiter", 4000)
    \/ steps < MaxDrainSteps /\ Animate(1, 16, NoPad)

SpecDrain == Init /\ [][NextDrain]_vars

\* C24: a frame leaves the mouse accumulator at (0, 0), and a frame that finds
\* it at (0, 0), as every frame does that follows a frame with no mouse move in
\* between, applies no mouse displacement: in free flight the camera keeps its
\* orientation and under a lock theta and phi stay as they were
C24_DrainIdempotent ==
    /\ last.op = "frame" => mouseDelta = <<0, 0>>
    /\ (last.op = "frame" /\ last.mouse = <<0, 0>>)
          => /\ last.applied = <<0, 0>>
             /\ last.before = NoLock => camera.basis = last.camera.basis
             /\ last.before # NoLock
                   => /\ last.updated[1].theta = last.before[1].theta
                      /\ last.updated[1].phi = last.before[1].phi

C24_Witness ==
    /\ last.op = "frame" /\ last.mouse = <<0, 0>> /\ last.before # NoLock
    /\ last.consumed = <<100, 400>> /\ last.dragged = last.consumed
    /\ Lock.theta # MathPI \div 4


\* ------------------------------------------------------ pad zoom buttons

\* a connected pad with button 12, button 13, or both pressed
PadZoomOut == [PadIdle EXCEPT !.b12 = TRUE]

PadZoomIn == [PadIdle EXCEPT !.b13 = TRUE]

PadZoomBoth == [PadIdle EXCEPT !.b12 = TRUE, !.b13 = TRUE]

\* frames with the zoom buttons up, held one at a time and held together, a
\* wheel tick and a lock-on
NextPadZoom ==
    \/ steps < MaxSteps /\ LockOn("jupiter", 4000)
    \/ steps < MaxSteps /\ HandleWheel(FALSE, FALSE)
    \/ steps < MaxSteps /\ \E p \in {NoPad, PadIdle, PadZoomOut, PadZoomIn, PadZoomBoth} :
                               Animate(1, 16, p)

SpecPadZoom == Init /\ [][NextPadZoom]_vars

\* the zoom velocity of the last frame once the buttons read in it are counted:
\* one down for button 12, one up for button 13
Incremented ==
    last.zoom + (IF last.pad.connected /\ last.pad.b13 THEN 1000 ELSE 0)
              - (IF last.pad.connected /\ last.pad.b12 THEN 1000 ELSE 0)

\* C25: every frame adds one increment per held zoom button to the velocity it
\* found (button 12 down, button 13 up, both together nothing) and damps the sum:
\* in free flight by 0.9 when above the epsilon, under a lock by 0.9
C25_HeldButtonsAccumulate ==
    last.op = "frame" =>
        /\ zoomVelocity = IF last.before # NoLock \/ Abs(Incremented) > 10
                          THEN TruncDiv(Incremented * 9, 10) ELSE Incremented
        /\ (last.pad = PadZoomBoth /\ last.zoom = 0) => zoomVelocity = 0

\* button 13 held for three frames: ((1 * 0.9 + 1) * 0.9 + 1) * 0.9
C25_Witness ==
    /\ last.op = "frame" /\ last.pad = PadZoomIn /\ steps = 3
    /\ last.zoom = 1710 /\ zoomVelocity = 2439


\* ------------------------------------------------- the auto-unlock frame

\* the intent flags with every translational flag down
Still(inp) ==
    [inp EXCEPT !.forward = FALSE, !.back = FALSE, !.left = FALSE, !.right = FALSE,
                !.up = FALSE, !.down = FALSE]

\* the pad with the left stick centred and buttons 0 and 1 up
StillPad(pad) == [pad EXCEPT !.ax0 = 0, !.ax1 = 0, !.b0 = FALSE, !.b1 = FALSE]

\* the last frame's update run again without any translational intent
Untranslated ==
    applyInputToCamera(last.camera, Still(input), last.delta, last.mouse, last.zoom,
                       last.before, StillPad(last.pad), time, scene)

\* C26: a frame that starts locked and has translational intent updates the
\* camera as a locked frame: the zoom goes to the orbit distance, the position
\* moves a tenth of the way to the target's offset position, the camera looks at
\* the target, and the result is the one the same frame gives without the
\* translational intent; only then is the lock cleared. A frame that starts
\* free with translational intent does move the camera.
C26_UnlockFrameIsLocked ==
    /\ (LockedFrame /\ TranslationalFrame)
          => /\ lockRef = NoLock
             /\ last.updated # NoLock
             /\ last.updated[1].distance
                   = Max(MinDistance(last.before[1].mesh),
                         last.before[1].distance + TruncDiv(ZoomSeen * last.delta, 200))
             /\ camera.position = lerp(last.camera.position, Desired)
             /\ camera = lookAt(camera, WorldPosition(last.before[1].mesh, time, scene))
             /\ camera = Untranslated.cam
             /\ last.updated = Untranslated.lock
    /\ (last.op = "frame" /\ last.before = NoLock /\ TranslationalFrame)
          => camera.position # Untranslated.cam.position

C26_Witness ==
    /\ LockedFrame /\ TranslationalFrame /\ KeyTranslation
    /\ lockRef = NoLock /\ ZoomSeen # 0
    /\ last.updated[1].distance # last.before[1].distance
    /\ camera.position # last.camera.position


\* ------------------------------------------- locking on while moving

\* C27: a lock does not outlive a frame taken under translational intent: if a
\* lock is present (a lock-on issued with a translational key held takes effect
\* like any other) and the next frame finds a translational key held or the pad
\* asking for translation, the lock is null after that frame
C27_LockDoesNotSurvive ==
    [][(lockRef # NoLock /\ last'.op = "frame"
           /\ (KeyTranslation \/ PadTranslation(last'.pad)))
          => lockRef' = NoLock]_vars

C27_Witness ==
    /\ LockedFrame /\ KeyTranslation /\ last.pad = NoPad
    /\ last.before = lockOnTarget("europa", 500)
    /\ lockRef = NoLock


\* ----------------------------------------------------- the boost flag

ShiftCodes == {"ShiftLeft", "ShiftRight"}

\* C28: boost is what the latest Shift event of either side made it: TRUE after
\* a Shift key-down (first or auto-repeated), FALSE after a Shift key-up even
\* while the other Shift key is held, and untouched by the events of other keys
C28_BoostFollowsLastShift ==
    /\ (KeyEvent /\ last.code \in ShiftCodes) => (input.boost <=> last.op = "keydown")
    /\ (KeyEvent /\ last.code \notin ShiftCodes) => (input.boost <=> last.flags.boost)

C28_Witness ==
    /\ last.op = "keyup" /\ last.code = "ShiftLeft"
    /\ "ShiftRight" \in held /\ last.flags.boost /\ ~input.boost


\* ------------------------------------------ accumulators across modes

\* the last operation was a mode command: a lock-on, or the first key-down of
\* Escape (unlock) or T (top view)
ModeCommand ==
    \/ last.op = "lockOn"
    \/ last.op = "keydown" /\ ~last.repeat /\ KeyOf(last.code) \in {"Escape", "t"}

\* C29: a mode command leaves the zoom velocity, the mouse accumulator and the
\* intent flags as they were; the unlock inside a frame changes none of them
\* either (they are what the same frame leaves without the unlock); and the
\* velocity carried over acts in the new mode: a locked frame adds it to the
\* orbit distance, a free frame moves the camera by it
C29_ModeKeepsAccumulators ==
    /\ ModeCommand
          => zoomVelocity = last.zoom /\ mouseDelta = last.mouse /\ input = last.flags
    /\ (LockedFrame /\ lockRef = NoLock)
          => /\ zoomVelocity = Untranslated.zoom
             /\ mouseDelta = Untranslated.mouseDelta
             /\ input = last.flags
    /\ LockedFrame
          => last.updated[1].distance
                = Max(MinDistance(last.before[1].mesh),
                      last.before[1].distance + TruncDiv(ZoomSeen * last.delta, 200))
    /\ ZoomFrame => camera.position # Unzoomed.position

\* a wheel tick, then a lock-on, then the first locked frame
C29_Witness ==
    /\ LockedFrame /\ last.zoom = -5000 /\ last.pad = NoPad /\ last.delta = 16
    /\ last.before = lockOnTarget("jupiter", 4000)
    /\ last.updated[1].distance = last.before[1].distance - 400


\* --------------------------------------------------------- the stats HUD

\* the frame counter anywhere in its cycle, no lock, the HUD showing none
InitHud == \E n \in 0..9 : InitState(0, n)

\* lock-on, Escape and frames
NextHud ==
    \/ steps < MaxSteps /\ \E c \in {<<"jupiter", 4000>>, <<"europa", 500>>} : LockOn(c[1], c[2])
    \/ steps < MaxSteps /\ \E r \in BOOLEAN : HandleKeyDown("Escape", r)
    \/ steps < MaxSteps /\ HandleKeyUp("Escape")
    \/ steps < MaxSteps /\ Animate(1, 16, NoPad)

SpecHud == InitHud /\ [][NextHud]_vars

\* C30: the frame counter stays within 0..9 and a frame advances it by one,
\* from 9 to 0; the locked-target information changes only in a frame that
\* brings the counter to 0, and after such a frame it is that of the lock state
\* (null without a lock). So a lock state left alone is shown after at most
\* 10 frames.
C30_HudEveryTenth ==
    /\ statsFrameCount \in 0..9
    /\ last.op = "frame" => statsFrameCount = (last.count + 1) % 10
    /\ last.op \notin {"frame", "init"} => statsFrameCount = last.count
    /\ lockedInfo # last.info => (last.op = "frame" /\ statsFrameCount = 0)
    /\ (last.op = "frame" /\ statsFrameCount = 0)
          => lockedInfo = (IF lockRef = NoLock THEN "null"
                           ELSE IF Lock.mesh = "jupiter" THEN "Jupiter" ELSE "Europa")

C30_Witness ==
    /\ last.op = "frame" /\ last.count = 9 /\ statsFrameCount = 0
    /\ last.info = "null" /\ lockedInfo = "Europa" /\ lockRef # NoLock

====
